---- MODULE Spec2Model ----
(***************************************************************************)
(* A model of the ci-operator step graph (package api: StepLink, StepNode, *)
(* BuildGraph, BuildPartialGraph) and of the two tagging steps of package  *)
(* steps (inputImageTagStep, releaseImagesTagStep) run against a remote    *)
(* image API.                                                              *)
(***************************************************************************)
EXTENDS Integers, Sequences, FiniteSets, TLC

VARIABLES
    steps,        \* the []Step argument: steps[i] is the Step object at index i
    argNames,     \* the names argument as the caller passed it
    callerNames,  \* the caller's view of its names slice after the call
    op,           \* the last operation performed
    nodes,        \* the StepNode objects of the last build, in allNodes order
    roots,        \* the returned []*StepNode, as positions in nodes
    failed,       \* the returned error is non-nil
    errMsg,       \* the text of the returned error
    leftover,     \* the local names slice when the name scan ended
    named,        \* candidates[] when the name scan ended
    candidates,   \* candidates[] when the closure loop ended
    scans,        \* the number of full scans the closure loop made
    linkL,        \* receiver of the last Matches call
    linkM,        \* argument of the last Matches call
    linkRes,      \* l.Matches(m)
    linkRev,      \* m.Matches(l)
    linkSelf,     \* l.Matches(l)
    cfgName,      \* releaseImagesTagStep.config.Name ("" selects the by-tag mode)
    srcStreams,   \* the ImageStreams of config.Namespace, as the API lists them
    baseImage,    \* the image config.BaseImage resolves to now, "" if not found
    jobTags,      \* the ImageStreamTags of the job namespace
    jobStreams,   \* the ImageStreams of the job namespace
    configMaps,   \* the names of the ConfigMaps of the job namespace
    imageName,    \* inputImageTagStep.imageName
    params,       \* the DeferredParameters set so far
    printed,      \* the names of the resources rendered on stdout
    call,         \* the last step method called: [step, method, dry]
    result,       \* what it returned
    ranOk,        \* the steps whose non-dry-run Run has returned nil
    remote,       \* what the last step method met at the API: [lookup, readErr,
                  \* createErr], and again: its step was in ranOk when called
    nstate,       \* the executor's run-state of each node of the graph
    pending       \* the executor's count of unfinished parents of each node

graphVars == <<steps, argNames, callerNames, op, nodes, roots, failed, errMsg,
               leftover, named, candidates, scans>>
linkVars == <<linkL, linkM, linkRes, linkRev, linkSelf>>
stepVars == <<cfgName, srcStreams, baseImage, jobTags, jobStreams, configMaps,
              imageName, params, printed, call, result, ranOk, remote>>
execVars == <<nstate, pending>>
vars == <<graphVars, linkVars, stepVars, execVars>>

----------------------------------------------------------------------------
(* Bounds *)

MaxSteps == 3
MaxNames == 2

----------------------------------------------------------------------------
(* StepLink and its five implementations *)

ExternalImageLink(ns, name, tag) ==
    [kind |-> "external", Namespace |-> ns, Name |-> name, Tag |-> tag]

InternalImageLink(ref) ==
    [kind |-> "internal", Namespace |-> "", Name |-> "", Tag |-> ref]

ImagesReadyLink == [kind |-> "imagesReady", Namespace |-> "", Name |-> "", Tag |-> ""]

RPMRepoLink == [kind |-> "rpmRepo", Namespace |-> "", Name |-> "", Tag |-> ""]

ReleaseImagesLink == [kind |-> "releaseImages", Namespace |-> "", Name |-> "", Tag |-> ""]

\* externalImageLink.Matches comparing name and namespace only
externalImageLinkMatches_NoTag(l, other) ==
    IF other.kind = "external"
    THEN l.Name = other.Name /\ l.Namespace = other.Namespace
    ELSE FALSE

externalImageLinkMatches(l, other) ==
    IF other.kind = "external"
    THEN /\ l.Name = other.Name
         /\ l.Namespace = other.Namespace
         /\ l.Tag = other.Tag
    ELSE FALSE

internalImageLinkMatches(l, other) ==
    IF other.kind = "internal" THEN l.Tag = other.Tag ELSE FALSE

imagesReadyLinkMatches(l, other) ==
    IF other.kind = "imagesReady" THEN TRUE ELSE FALSE

rpmRepoLinkMatches(l, other) ==
    IF other.kind = "rpmRepo" THEN TRUE ELSE FALSE

releaseImagesLinkMatches(l, other) ==
    IF other.kind = "releaseImages" THEN TRUE ELSE FALSE

\* l.Matches(other): dynamic dispatch on the receiver's type
Matches(l, other) ==
    CASE l.kind = "external"      -> externalImageLinkMatches(l, other)
      [] l.kind = "internal"      -> internalImageLinkMatches(l, other)
      [] l.kind = "imagesReady"   -> imagesReadyLinkMatches(l, other)
      [] l.kind = "rpmRepo"       -> rpmRepoLinkMatches(l, other)
      [] l.kind = "releaseImages" -> releaseImagesLinkMatches(l, other)

----------------------------------------------------------------------------
(* Steps: the Step interface as seen by the graph builder *)

LinkA == InternalImageLink("a")
LinkB == InternalImageLink("b")
LinkExt == ExternalImageLink("ns", "base", "latest")

NewStep(name, requires, creates) ==
    [name |-> name, requires |-> requires, creates |-> creates]

\* inputImageTagStep: Name() "", Requires() the external base image,
\* Creates() the internal pipeline tag
inputImageTagStepLinks(base, to) ==
    NewStep("", <<base>>, <<InternalImageLink(to)>>)

\* releaseImagesTagStep: Name() "", Requires() nothing,
\* Creates() the release images link
releaseImagesTagStepLinks ==
    NewStep("", <<>>, <<ReleaseImagesLink>>)

StepUniverse ==
    { NewStep("X", <<>>, <<LinkA, ImagesReadyLink>>),
      NewStep("Y", <<LinkA>>, <<LinkB>>),
      NewStep("Z", <<LinkA, ImagesReadyLink>>, <<RPMRepoLink>>),
      NewStep("X", <<LinkB>>, <<LinkA>>),
      NewStep("", <<RPMRepoLink>>, <<RPMRepoLink>>),
      inputImageTagStepLinks(LinkExt, "a"),
      releaseImagesTagStepLinks }

NameUniverse == {"", "X", "Y", "Z"}

SeqsUpTo(S, n) == UNION {[1..k -> S] : k \in 0..n}

Name(s) == steps[s].name
Requires(s) == steps[s].requires
Creates(s) == steps[s].creates

----------------------------------------------------------------------------
(* StepNode, addToNode, BuildGraph *)

NewNode(s) == [Step |-> s, Children |-> <<>>]

\* addToNode without the search for the child among the children
addToNode_NoSearch(ns, parent, child) ==
    [ns EXCEPT ![parent].Children = Append(@, child)]

\* addToNode with parent and child exchanged
addToNode_Swapped(ns, parent, child) ==
    IF \E k \in 1..Len(ns[child].Children) : ns[child].Children[k] = parent
    THEN ns
    ELSE [ns EXCEPT ![child].Children = Append(@, parent)]

\* addToNode(parent, child): the node list after the call
addToNode(ns, parent, child) ==
    IF \E k \in 1..Len(ns[parent].Children) : ns[parent].Children[k] = child
    THEN ns
    ELSE [ns EXCEPT ![parent].Children = Append(@, child)]

\* the four nested loops of BuildGraph; g = [nodes, roots, isRoot],
\* (node, other, i, j) the loop positions
RECURSIVE BuildLoop(_, _, _, _, _)
BuildLoop(g, node, other, i, j) ==
    LET n == Len(g.nodes) IN
    IF node > n THEN g
    ELSE IF other > n
    THEN BuildLoop([g EXCEPT !.roots = IF g.isRoot THEN Append(@, node) ELSE @,
                             !.isRoot = TRUE],
                   node + 1, 1, 1, 1)
    ELSE IF i > Len(Requires(g.nodes[node].Step))
    THEN BuildLoop(g, node, other + 1, 1, 1)
    ELSE IF j > Len(Creates(g.nodes[other].Step))
    THEN BuildLoop(g, node, other, i + 1, 1)
    ELSE IF Matches(Requires(g.nodes[node].Step)[i], Creates(g.nodes[other].Step)[j])
    THEN BuildLoop([g EXCEPT !.isRoot = FALSE,
                             !.nodes = addToNode(@, other, node)],
                   node, other, i, j + 1)
    ELSE BuildLoop(g, node, other, i, j + 1)

\* BuildGraph(ss) for a sequence ss of Step references
BuildGraph(ss) ==
    LET allNodes == [k \in 1..Len(ss) |-> NewNode(ss[k])]
        g == BuildLoop([nodes |-> allNodes, roots |-> <<>>, isRoot |-> TRUE], 1, 1, 1, 1)
    IN [nodes |-> g.nodes, roots |-> g.roots]

AllSteps == [k \in 1..Len(steps) |-> k]

----------------------------------------------------------------------------
(* HasAnyLinks, BuildPartialGraph *)

HasAnyLinks(required, cands) ==
    \E c \in 1..Len(cands) : \E r \in 1..Len(required) :
        Matches(required[r], cands[c])

\* strings.Join
RECURSIVE Join(_, _)
Join(s, sep) ==
    IF Len(s) = 0 THEN ""
    ELSE IF Len(s) = 1 THEN s[1]
    ELSE s[1] \o sep \o Join(Tail(s), sep)

\* the removal of every name equal to the matched one
RECURSIVE Without(_, _)
Without(s, x) ==
    IF Len(s) = 0 THEN <<>>
    ELSE IF s[1] = x THEN Without(Tail(s), x)
    ELSE <<s[1]>> \o Without(Tail(s), x)

RemoveAt_AllEqual(sl, j) ==
    LET rest == Without(SubSeq(sl.arr, 1, sl.len), sl.arr[j]) IN
    [arr |-> rest \o SubSeq(sl.arr, Len(rest) + 1, Len(sl.arr)), len |-> Len(rest)]

\* names = names[:j], dropping the names after the matched one too
RemoveAt_Truncate(sl, j) == [arr |-> sl.arr, len |-> j - 1]

\* names = append(names[:j], names[j+1:]...) on a slice sl = [arr, len]
\* that shares its backing array arr with the caller
RemoveAt(sl, j) ==
    [arr |-> [k \in 1..Len(sl.arr) |->
                 IF k >= j /\ k < sl.len THEN sl.arr[k + 1] ELSE sl.arr[k]],
     len |-> sl.len - 1]

Slice(sl) == SubSeq(sl.arr, 1, sl.len)

\* the first j with names[j] = name, 0 if there is none
FirstMatch(sl, name) ==
    IF \E j \in 1..sl.len : sl.arr[j] = name
    THEN CHOOSE j \in 1..sl.len :
            /\ sl.arr[j] = name
            /\ \A k \in 1..(j - 1) : sl.arr[k] # name
    ELSE 0

\* the name scan: st = [cand, required, names], i the step index
RECURSIVE NameScan(_, _)
NameScan(st, i) ==
    IF i > Len(steps) THEN st
    ELSE LET j == FirstMatch(st.names, Name(i)) IN
         IF j = 0 THEN NameScan(st, i + 1)
         ELSE NameScan([cand |-> [st.cand EXCEPT ![i] = TRUE],
                        required |-> st.required \o Requires(i),
                        names |-> RemoveAt(st.names, j)],
                       i + 1)

\* one pass of the inner loop of the closure: st = [cand, required, added]
RECURSIVE ScanOnce(_, _)
ScanOnce(st, i) ==
    IF i > Len(steps) THEN st
    ELSE IF st.cand[i] THEN ScanOnce(st, i + 1)
    ELSE IF HasAnyLinks(st.required, Creates(i))
    THEN ScanOnce([cand |-> [st.cand EXCEPT ![i] = TRUE],
                   required |-> st.required \o Requires(i),
                   added |-> st.added + 1],
                  i + 1)
    ELSE ScanOnce(st, i + 1)

\* the closure without its outer loop: one scan only
Closure_OneScan(cand, required, n) ==
    [cand |-> ScanOnce([cand |-> cand, required |-> required, added |-> 0], 1).cand,
     scans |-> n + 1]

\* the outer for loop of the closure; returns [cand, scans]
RECURSIVE Closure(_, _, _)

\* the closure leaving its loop one scan late
Closure_LateExit(cand, required, n) ==
    LET st == ScanOnce([cand |-> cand, required |-> required, added |-> 0], 1) IN
    IF st.added = 0 /\ n > 0 THEN [cand |-> st.cand, scans |-> n + 1]
    ELSE Closure(st.cand, st.required, n + 1)

Closure(cand, required, n) ==
    LET st == ScanOnce([cand |-> cand, required |-> required, added |-> 0], 1) IN
    IF st.added = 0 THEN [cand |-> st.cand, scans |-> n + 1]
    ELSE Closure(st.cand, st.required, n + 1)

\* targeted: the steps with candidates[i] set, in order
RECURSIVE Targeted(_, _)
Targeted(cand, i) ==
    IF i > Len(cand) THEN <<>>
    ELSE IF cand[i] THEN <<i>> \o Targeted(cand, i + 1)
    ELSE Targeted(cand, i + 1)

NoGraph == [nodes |-> <<>>, roots |-> <<>>]

ErrPrefix == "the following names were not found in the config or were duplicates: "

\* BuildPartialGraph with len(names) == 0: return BuildGraph(steps), nil
FullGraph(names) ==
    [graph |-> BuildGraph(AllSteps), failed |-> FALSE, errMsg |-> "",
     callerNames |-> names, leftover |-> names,
     named |-> <<>>, candidates |-> <<>>, scans |-> 0]

\* BuildPartialGraph past the len(names) == 0 test
PartialGraph(names) ==
    LET scan == NameScan([cand |-> [k \in 1..Len(steps) |-> FALSE],
                          required |-> <<>>,
                          names |-> [arr |-> names, len |-> Len(names)]], 1)
    IN IF scan.names.len > 0
       THEN [graph |-> NoGraph, failed |-> TRUE,
             errMsg |-> ErrPrefix \o Join(Slice(scan.names), ", "),
             callerNames |-> scan.names.arr, leftover |-> Slice(scan.names),
             named |-> scan.cand, candidates |-> scan.cand, scans |-> 0]
       ELSE LET cl == Closure(scan.cand, scan.required, 0) IN
            [graph |-> BuildGraph(Targeted(cl.cand, 1)), failed |-> FALSE,
             errMsg |-> "",
             callerNames |-> scan.names.arr, leftover |-> Slice(scan.names),
             named |-> scan.cand, candidates |-> cl.cand, scans |-> cl.scans]

\* BuildPartialGraph without the len(names) == 0 shortcut
BuildPartialGraph_NoShortcut(names) == PartialGraph(names)

\* BuildPartialGraph(steps, names): everything the call produces
BuildPartialGraph(names) ==
    IF Len(names) = 0 THEN FullGraph(names) ELSE PartialGraph(names)

----------------------------------------------------------------------------
(* The graph builder as a state machine *)

InitLinks ==
    /\ linkL = ImagesReadyLink
    /\ linkM = ImagesReadyLink
    /\ linkRes = TRUE
    /\ linkRev = TRUE
    /\ linkSelf = TRUE

InitGraph ==
    /\ argNames = <<>>
    /\ callerNames = <<>>
    /\ op = "init"
    /\ nodes = <<>>
    /\ roots = <<>>
    /\ failed = FALSE
    /\ errMsg = ""
    /\ leftover = <<>>
    /\ named = <<>>
    /\ candidates = <<>>
    /\ scans = 0

\* no API call made
NoRemote == [lookup |-> FALSE, readErr |-> FALSE, createErr |-> FALSE, again |-> FALSE]

\* the step state and the cluster when only the graph or the links are run
InitIdleSteps ==
    /\ cfgName = ""
    /\ srcStreams = <<>>
    /\ baseImage = ""
    /\ jobTags = {}
    /\ jobStreams = {}
    /\ configMaps = {}
    /\ imageName = ""
    /\ params = {}
    /\ printed = {}
    /\ call = [step |-> "none", method |-> "none", dry |-> FALSE]
    /\ result = [status |-> "none", value |-> ""]
    /\ ranOk = {}
    /\ remote = NoRemote

\* the executor before any graph is handed to it
InitIdleExec ==
    /\ nstate = <<>>
    /\ pending = <<>>

Init ==
    /\ steps \in SeqsUpTo(StepUniverse, MaxSteps)
    /\ InitGraph
    /\ InitLinks
    /\ InitIdleSteps
    /\ InitIdleExec

CallBuildGraph ==
    /\ op = "init"
    /\ LET g == BuildGraph(AllSteps) IN
        /\ nodes' = g.nodes
        /\ roots' = g.roots
    /\ op' = "BuildGraph"
    /\ UNCHANGED <<steps, argNames, callerNames, failed, errMsg, leftover,
                   named, candidates, scans>>
    /\ UNCHANGED linkVars
    /\ UNCHANGED stepVars
    /\ UNCHANGED execVars

CallBuildPartialGraph ==
    /\ op = "init"
    /\ \E names \in SeqsUpTo(NameUniverse, MaxNames) :
        LET r == BuildPartialGraph(names) IN
        /\ argNames' = names
        /\ callerNames' = r.callerNames
        /\ nodes' = r.graph.nodes
        /\ roots' = r.graph.roots
        /\ failed' = r.failed
        /\ errMsg' = r.errMsg
        /\ leftover' = r.leftover
        /\ named' = r.named
        /\ candidates' = r.candidates
        /\ scans' = r.scans
    /\ op' = "BuildPartialGraph"
    /\ UNCHANGED steps
    /\ UNCHANGED linkVars
    /\ UNCHANGED stepVars
    /\ UNCHANGED execVars

\* the links the five constructors can build from two values per field
LinkUniverse ==
    {ExternalImageLink(ns, name, tag) :
        ns \in {"ns", "ocp"}, name \in {"base", "origin"}, tag \in {"latest", "v1"}}
    \cup {InternalImageLink(t) : t \in {"a", "b", "latest"}}
    \cup {ImagesReadyLink, RPMRepoLink, ReleaseImagesLink}

\* l.Matches(m), m.Matches(l) and l.Matches(l) for two links
CallMatches ==
    /\ \E l, m \in LinkUniverse :
        /\ linkL' = l
        /\ linkM' = m
        /\ linkRes' = Matches(l, m)
        /\ linkRev' = Matches(m, l)
        /\ linkSelf' = Matches(l, l)
    /\ UNCHANGED graphVars
    /\ UNCHANGED stepVars
    /\ UNCHANGED execVars

InitMatches ==
    /\ steps = <<>>
    /\ InitGraph
    /\ InitLinks
    /\ InitIdleSteps
    /\ InitIdleExec

NextMatches == CallMatches

SpecLinks == InitMatches /\ [][NextMatches]_vars

Next == CallBuildGraph \/ CallBuildPartialGraph

Spec == Init /\ [][Next]_vars

----------------------------------------------------------------------------
(* The executor of spec section 4.3, run over the graph BuildGraph returns *)

\* the nodes whose Children list contains node k
ExecParents(k) ==
    {p \in 1..Len(nodes) :
        \E c \in 1..Len(nodes[p].Children) : nodes[p].Children[c] = k}

ExecChildren(k) == {nodes[k].Children[c] : c \in 1..Len(nodes[k].Children)}

\* the counters after node k reached a terminal success or skip: each of
\* its children has one pending parent less
Release_All(pend, k) ==
    [c \in DOMAIN pend |-> IF c \in ExecChildren(k) THEN 0 ELSE pend[c]]

Release(pend, k) ==
    [c \in DOMAIN pend |-> IF c \in ExecChildren(k) THEN pend[c] - 1 ELSE pend[c]]

InitExec ==
    /\ steps \in SeqsUpTo(StepUniverse, MaxSteps)
    /\ argNames = <<>>
    /\ callerNames = <<>>
    /\ op = "Execute"
    /\ nodes = BuildGraph(AllSteps).nodes
    /\ roots = BuildGraph(AllSteps).roots
    /\ failed = FALSE
    /\ errMsg = ""
    /\ leftover = <<>>
    /\ named = <<>>
    /\ candidates = <<>>
    /\ scans = 0
    /\ InitLinks
    /\ InitIdleSteps
    /\ nstate = [k \in 1..Len(nodes) |-> "Pending"]
    /\ pending = [k \in 1..Len(nodes) |-> Cardinality(ExecParents(k))]

\* a ready node is taken by a worker, which begins with its Done()
ExecStart ==
    /\ \E k \in 1..Len(nodes) :
        /\ nstate[k] = "Pending"
        /\ pending[k] = 0
        /\ nstate' = [nstate EXCEPT ![k] = "Checking"]
    /\ UNCHANGED pending
    /\ UNCHANGED <<graphVars, linkVars, stepVars>>

\* Done() reports the effect present: the node is skipped
ExecSkip ==
    /\ \E k \in 1..Len(nodes) :
        /\ nstate[k] = "Checking"
        /\ nstate' = [nstate EXCEPT ![k] = "Skipped"]
        /\ pending' = Release(pending, k)
    /\ UNCHANGED <<graphVars, linkVars, stepVars>>

\* Done() reports the effect absent and Inputs succeeds: Run begins
ExecRun ==
    /\ \E k \in 1..Len(nodes) :
        /\ nstate[k] = "Checking"
        /\ nstate' = [nstate EXCEPT ![k] = "Running"]
    /\ UNCHANGED pending
    /\ UNCHANGED <<graphVars, linkVars, stepVars>>

\* Run returns nil
ExecSucceed ==
    /\ \E k \in 1..Len(nodes) :
        /\ nstate[k] = "Running"
        /\ nstate' = [nstate EXCEPT ![k] = "Succeeded"]
        /\ pending' = Release(pending, k)
    /\ UNCHANGED <<graphVars, linkVars, stepVars>>

\* Done(), Inputs or Run fails: the node fails and its children never start
ExecFail ==
    /\ \E k \in 1..Len(nodes) :
        /\ nstate[k] \in {"Checking", "Running"}
        /\ nstate' = [nstate EXCEPT ![k] = "Failed"]
    /\ UNCHANGED pending
    /\ UNCHANGED <<graphVars, linkVars, stepVars>>

NextExec == ExecStart \/ ExecSkip \/ ExecRun \/ ExecSucceed \/ ExecFail

SpecExec == InitExec /\ [][NextExec]_vars

----------------------------------------------------------------------------
(* The cluster API and the configuration of the two tagging steps *)

PipelineImageStream == "pipeline"
StableImageStream == "stable"
ConfigMapName == "release"

\* inputImageTagStep.config
InputConfig ==
    [BaseImage |-> [Namespace |-> "ns", Name |-> "base", Tag |-> "latest"],
     To |-> "a"]

\* releaseImagesTagStep.config but for its Name, which is cfgName
ReleaseConfig ==
    [Namespace |-> "ocp", Tag |-> "latest", TagOverrides |-> [n \in {"cli"} |-> "v1"]]

NilRef == [Kind |-> "nil", Namespace |-> "", Name |-> ""]

TagEvent(image, ref) == [Image |-> image, DockerImageReference |-> ref]

NewStream(name, specTags, statusTags, public, repo) ==
    [Name |-> name, Namespace |-> ReleaseConfig.Namespace, SpecTags |-> specTags,
     StatusTags |-> statusTags, PublicDockerImageRepository |-> public,
     DockerImageRepository |-> repo]

\* the ImageStream a failed Create leaves in its result: the zero value
EmptyStream == NewStream("", <<>>, <<>>, "", "")

Origin ==
    NewStream("origin", <<"latest", "v1">>,
              <<[Tag |-> "latest", Items |-> <<TagEvent("sha1", "reg/ocp/origin@sha1")>>]>>,
              "", "reg/ocp/origin")

Cli ==
    NewStream("cli", <<"v1">>,
              <<[Tag |-> "v1", Items |-> <<TagEvent("sha2", "reg/ocp/cli@sha2")>>]>>,
              "pub/ocp/cli", "reg/ocp/cli")

\* a tag that tracks a docker image that was never imported
Web ==
    NewStream("web", <<"latest">>,
              <<[Tag |-> "latest", Items |-> <<TagEvent("", "docker.io/web:latest")>>]>>,
              "", "")

\* a tag whose status has no items
Db ==
    NewStream("db", <<"latest">>, <<[Tag |-> "latest", Items |-> <<>>]>>, "", "")

SourceNamespaces ==
    { <<Origin>>, <<Web>>, <<Origin, Cli>>, <<Cli, Web>>, <<Origin, Db>> }

ConfigNames == {"", "origin", "web"}

ImageNames == {"sha1", "sha2"}

Ok(value) == [status |-> "ok", value |-> value]
Err(value) == [status |-> "err", value |-> value]
Panic == [status |-> "panic", value |-> ""]

----------------------------------------------------------------------------
(* inputImageTagStep *)

\* Inputs without the test of s.imageName
inputInputs_NoMemo(fault) ==
    IF fault \/ baseImage = ""
    THEN [res |-> Err(""), imageName |-> imageName, lookup |-> TRUE]
    ELSE [res |-> Ok(baseImage), imageName |-> baseImage, lookup |-> TRUE]

\* Inputs: [res, imageName, lookup] for a Get of the base image that fails
\* iff fault; lookup tells whether the Get was issued
inputInputs(fault) ==
    IF Len(imageName) > 0
    THEN [res |-> Ok(imageName), imageName |-> imageName, lookup |-> FALSE]
    ELSE IF fault \/ baseImage = ""
    THEN [res |-> Err(""), imageName |-> imageName, lookup |-> TRUE]
    ELSE [res |-> Ok(baseImage), imageName |-> baseImage, lookup |-> TRUE]

\* the ImageStreamTag that Run builds
inputTag(name) ==
    [Name |-> PipelineImageStream \o ":" \o InputConfig.To,
     From |-> [Kind |-> "ImageStreamImage",
               Name |-> InputConfig.BaseImage.Name \o "@" \o name,
               Namespace |-> InputConfig.BaseImage.Namespace]]

TagExists(tags, name) == \E t \in tags : t.Name = name

\* ImageStreamTags(ns).Create(ist): already exists leaves the store alone
CreateTag(tags, ist) == IF TagExists(tags, ist.Name) THEN tags ELSE tags \cup {ist}

\* Run without the dry test: the tag is created in a dry run too
inputRun_IgnoreDry(dry, getFault, createFault) ==
    LET in == inputInputs(getFault)
        ist == inputTag(in.imageName)
        same == [res |-> in.res, imageName |-> in.imageName, lookup |-> in.lookup,
                 jobTags |-> jobTags, printed |-> printed]
    IN IF in.res.status = "err" THEN [same EXCEPT !.res = Err("")]
       ELSE IF createFault THEN [same EXCEPT !.res = Err("")]
       ELSE [same EXCEPT !.res = Ok(""), !.jobTags = CreateTag(@, ist)]

\* Run that returns every error of Create, already exists too
inputRun_ExistsIsError(dry, getFault, createFault) ==
    LET in == inputInputs(getFault)
        ist == inputTag(in.imageName)
        same == [res |-> in.res, imageName |-> in.imageName, lookup |-> in.lookup,
                 jobTags |-> jobTags, printed |-> printed]
    IN IF in.res.status = "err" THEN [same EXCEPT !.res = Err("")]
       ELSE IF dry THEN [same EXCEPT !.res = Ok(""), !.printed = @ \cup {ist.Name}]
       ELSE IF createFault \/ TagExists(jobTags, ist.Name) THEN [same EXCEPT !.res = Err("")]
       ELSE [same EXCEPT !.res = Ok(""), !.jobTags = CreateTag(@, ist)]

\* Run: [res, imageName, lookup, jobTags, printed]
inputRun(dry, getFault, createFault) ==
    LET in == inputInputs(getFault)
        ist == inputTag(in.imageName)
        same == [res |-> in.res, imageName |-> in.imageName, lookup |-> in.lookup,
                 jobTags |-> jobTags, printed |-> printed]
    IN IF in.res.status = "err" THEN [same EXCEPT !.res = Err("")]
       ELSE IF dry THEN [same EXCEPT !.res = Ok(""), !.printed = @ \cup {ist.Name}]
       ELSE IF createFault THEN [same EXCEPT !.res = Err("")]
       ELSE [same EXCEPT !.res = Ok(""), !.jobTags = CreateTag(@, ist)]

\* Done
inputDone(fault) ==
    IF fault THEN Err("false")
    ELSE IF TagExists(jobTags, PipelineImageStream \o ":" \o InputConfig.To)
    THEN Ok("true")
    ELSE Ok("false")

----------------------------------------------------------------------------
(* releaseImagesTagStep *)

FirstStatus(is, tag) ==
    IF \E k \in 1..Len(is.StatusTags) : is.StatusTags[k].Tag = tag
    THEN CHOOSE k \in 1..Len(is.StatusTags) :
            /\ is.StatusTags[k].Tag = tag
            /\ \A h \in 1..(k - 1) : is.StatusTags[h].Tag # tag
    ELSE 0

findStatusTag(is, tag) ==
    LET k == FirstStatus(is, tag) IN
    IF k = 0 THEN NilRef
    ELSE IF Len(is.StatusTags[k].Items) = 0 THEN NilRef
    ELSE IF Len(is.StatusTags[k].Items[1].Image) = 0
    THEN [Kind |-> "DockerImage", Namespace |-> "",
          Name |-> is.StatusTags[k].Items[1].DockerImageReference]
    ELSE [Kind |-> "ImageStreamImage", Namespace |-> is.Namespace,
          Name |-> is.Name \o "@" \o is.StatusTags[k].Items[1].Image]

resolvePullSpec(is, tag) ==
    LET k == FirstStatus(is, tag)
        image == IF k # 0 /\ Len(is.StatusTags[k].Items) > 0
                 THEN is.StatusTags[k].Items[1].Image ELSE ""
    IN IF Len(image) > 0 /\ Len(is.PublicDockerImageRepository) > 0
       THEN [ok |-> TRUE, spec |-> is.PublicDockerImageRepository \o "@" \o image]
       ELSE IF Len(image) > 0 /\ Len(is.DockerImageRepository) > 0
       THEN [ok |-> TRUE, spec |-> is.DockerImageRepository \o "@" \o image]
       ELSE IF Len(is.PublicDockerImageRepository) > 0
       THEN [ok |-> TRUE, spec |-> is.PublicDockerImageRepository \o ":" \o tag]
       ELSE IF Len(is.DockerImageRepository) > 0
       THEN [ok |-> TRUE, spec |-> is.DockerImageRepository \o ":" \o tag]
       ELSE [ok |-> FALSE, spec |-> ""]

\* strings.ToUpper(strings.Replace(component, "-", "_", -1)) on the tag names
\* of the source namespaces
componentToParamName(component) ==
    CASE component = "latest" -> "LATEST"
      [] component = "v1" -> "V1"
      [] OTHER -> component

\* DeferredParameters.Set
ParamsSet(ps, name, value) ==
    {q \in ps : q.name # name} \cup {[name |-> name, value |-> value]}

\* the params after the loop over is.Spec.Tags that follows the Create
RECURSIVE SetPullSpecs(_, _, _)
SetPullSpecs(ps, is, k) ==
    IF k > Len(is.SpecTags) THEN ps
    ELSE LET r == resolvePullSpec(is, is.SpecTags[k]) IN
         SetPullSpecs(IF r.ok THEN ParamsSet(ps, componentToParamName(is.SpecTags[k]), r.spec)
                      ELSE ps,
                      is, k + 1)

\* newIS.Spec.Tags: the spec tags of is that findStatusTag backs
RECURSIVE ValidTags(_, _)
ValidTags(is, k) ==
    IF k > Len(is.SpecTags) THEN <<>>
    ELSE LET valid == findStatusTag(is, is.SpecTags[k]) IN
         (IF valid # NilRef THEN <<[Name |-> is.SpecTags[k], From |-> valid]>> ELSE <<>>)
            \o ValidTags(is, k + 1)

StreamExists(streams, name) == \E t \in streams : t.Name = name

\* Run when len(config.Name) > 0: [res, jobTags, jobStreams, params, printed].
\* repo is the DockerImageRepository the server reports for the new stream
releaseRunByName(dry, getFault, createFault, repo) ==
    LET same == [res |-> Ok(""), jobTags |-> jobTags, jobStreams |-> jobStreams,
                 params |-> params, printed |-> printed]
    IN IF getFault \/ ~\E k \in 1..Len(srcStreams) : srcStreams[k].Name = cfgName
       THEN [same EXCEPT !.res = Err("")]
       ELSE
         LET is == srcStreams[CHOOSE k \in 1..Len(srcStreams) : srcStreams[k].Name = cfgName]
             newIS == [Name |-> StableImageStream, Tags |-> ValidTags(is, 1)]
         IN IF dry THEN [same EXCEPT !.printed = @ \cup {newIS.Name}]
            ELSE IF createFault THEN [same EXCEPT !.res = Err("")]
            ELSE IF StreamExists(jobStreams, newIS.Name)
            THEN [same EXCEPT !.params = SetPullSpecs(@, EmptyStream, 1)]
            ELSE LET created ==
                        NewStream(newIS.Name,
                                  [k \in 1..Len(newIS.Tags) |-> newIS.Tags[k].Name],
                                  <<>>, "", repo)
                 IN [same EXCEPT !.jobStreams = @ \cup {newIS},
                                 !.params = SetPullSpecs(@, created, 1)]

TargetTag(stream) ==
    IF stream.Name \in DOMAIN ReleaseConfig.TagOverrides
    THEN ReleaseConfig.TagOverrides[stream.Name]
    ELSE ReleaseConfig.Tag

\* Run when config.Name is empty: the loops over the stable image streams and
\* their spec tags; acc = [res, jobTags, jobStreams, params, printed, creates],
\* the failAt-th Create fails with an error other than already exists
RECURSIVE releaseRunByTag(_, _, _, _, _)
releaseRunByTag(acc, i, t, dry, failAt) ==
    IF i > Len(srcStreams) THEN acc
    ELSE
      LET is == srcStreams[i]
          targetTag == TargetTag(is)
      IN IF t > Len(is.SpecTags) THEN releaseRunByTag(acc, i + 1, 1, dry, failAt)
         ELSE IF is.SpecTags[t] # targetTag THEN releaseRunByTag(acc, i, t + 1, dry, failAt)
         ELSE
           LET hits == {k \in 1..Len(is.StatusTags) : is.StatusTags[k].Tag = targetTag} IN
           IF \E k \in hits : Len(is.StatusTags[k].Items) = 0
           THEN [acc EXCEPT !.res = Panic]
           ELSE
             LET id == IF hits = {} THEN ""
                       ELSE is.StatusTags[CHOOSE k \in hits : \A h \in hits : h <= k].Items[1].Image
                 ist == [Name |-> is.Name \o ":" \o targetTag,
                         From |-> [Kind |-> "ImageStreamImage",
                                   Name |-> is.Name \o "@" \o id,
                                   Namespace |-> ReleaseConfig.Namespace]]
                 spec == resolvePullSpec(is, is.SpecTags[t])
             IN IF Len(id) = 0 THEN [acc EXCEPT !.res = Err("")]
                ELSE IF dry
                THEN releaseRunByTag([acc EXCEPT !.printed = @ \cup {ist.Name}],
                                     i, t + 1, dry, failAt)
                ELSE IF acc.creates + 1 = failAt
                THEN [acc EXCEPT !.res = Err(""), !.creates = @ + 1]
                ELSE releaseRunByTag(
                        [acc EXCEPT !.creates = @ + 1,
                                    !.jobTags = CreateTag(@, ist),
                                    !.params = IF spec.ok
                                               THEN ParamsSet(@, componentToParamName(is.SpecTags[t]), spec.spec)
                                               ELSE @],
                        i, t + 1, dry, failAt)

\* Run: [res, jobTags, jobStreams, params, printed]
releaseRun(dry, getFault, failAt, repo) ==
    IF Len(cfgName) > 0
    THEN releaseRunByName(dry, getFault, failAt = 1, repo)
    ELSE IF getFault
    THEN [res |-> Err(""), jobTags |-> jobTags, jobStreams |-> jobStreams,
          params |-> params, printed |-> printed]
    ELSE LET r == releaseRunByTag([res |-> Ok(""), jobTags |-> jobTags,
                                   jobStreams |-> jobStreams, params |-> params,
                                   printed |-> printed, creates |-> 0],
                                  1, 1, dry, failAt)
         IN [res |-> r.res, jobTags |-> r.jobTags, jobStreams |-> r.jobStreams,
             params |-> r.params, printed |-> r.printed]

\* Done
releaseDone(fault) ==
    IF fault THEN Err("false")
    ELSE IF ConfigMapName \in configMaps THEN Ok("true")
    ELSE Ok("false")

\* the errors the API returned to Run of the input image tag step: readErr
\* from the Get of the base image, createErr other than already exists
inputRunErrors(dry, getFault, createFault) ==
    LET in == inputInputs(getFault) IN
    [readErr |-> in.res.status = "err",
     createErr |-> in.res.status # "err" /\ ~dry /\ createFault]

\* the errors the API returned to Run of the release images step: readErr from
\* the Get or List of the stable image streams, createErr other than already
\* exists from the failAt-th Create, if Run came to issue it
releaseRunErrors(dry, getFault, failAt, repo) ==
    LET readErr == \/ getFault
                   \/ /\ Len(cfgName) > 0
                      /\ ~\E k \in 1..Len(srcStreams) : srcStreams[k].Name = cfgName
    IN [readErr |-> readErr,
        createErr |-> /\ ~readErr
                      /\ ~dry
                      /\ failAt > 0
                      /\ releaseRun(dry, getFault, failAt, repo).res.status = "err"
                      /\ releaseRun(dry, getFault, 0, repo).res.status # "err"]

----------------------------------------------------------------------------
(* The two steps run against the cluster *)

MaxCreates == 2

InitSteps ==
    /\ steps = <<>>
    /\ InitGraph
    /\ InitLinks
    /\ InitIdleExec
    /\ cfgName \in ConfigNames
    /\ srcStreams \in SourceNamespaces
    /\ baseImage \in ImageNames \cup {""}
    /\ jobTags = {}
    /\ jobStreams = {}
    /\ configMaps \in {{}, {ConfigMapName}}
    /\ imageName = ""
    /\ params = {}
    /\ printed = {}
    /\ call = [step |-> "none", method |-> "none", dry |-> FALSE]
    /\ result = [status |-> "none", value |-> ""]
    /\ ranOk = {}
    /\ remote = NoRemote

InputInputs ==
    /\ \E dry, fault \in BOOLEAN :
        LET r == inputInputs(fault) IN
        /\ imageName' = r.imageName
        /\ result' = r.res
        /\ call' = [step |-> "input", method |-> "Inputs", dry |-> dry]
        /\ remote' = [lookup |-> r.lookup, readErr |-> r.res.status = "err",
                      createErr |-> FALSE, again |-> "input" \in ranOk]
    /\ UNCHANGED <<cfgName, srcStreams, baseImage, jobTags, jobStreams, configMaps,
                   params, printed, ranOk>>
    /\ UNCHANGED <<graphVars, linkVars, execVars>>

InputRun ==
    /\ \E dry, getFault, createFault \in BOOLEAN :
        LET r == inputRun(dry, getFault, createFault) IN
        /\ imageName' = r.imageName
        /\ jobTags' = r.jobTags
        /\ printed' = r.printed
        /\ result' = r.res
        /\ call' = [step |-> "input", method |-> "Run", dry |-> dry]
        /\ remote' = LET e == inputRunErrors(dry, getFault, createFault) IN
                      [lookup |-> r.lookup, readErr |-> e.readErr,
                       createErr |-> e.createErr, again |-> "input" \in ranOk]
        /\ ranOk' = IF ~dry /\ r.res.status = "ok" THEN ranOk \cup {"input"} ELSE ranOk
    /\ UNCHANGED <<cfgName, srcStreams, baseImage, jobStreams, configMaps, params>>
    /\ UNCHANGED <<graphVars, linkVars, execVars>>

InputDone ==
    /\ \E fault \in BOOLEAN :
        /\ result' = inputDone(fault)
        /\ call' = [step |-> "input", method |-> "Done", dry |-> FALSE]
        /\ remote' = [lookup |-> TRUE, readErr |-> fault, createErr |-> FALSE,
                      again |-> "input" \in ranOk]
    /\ UNCHANGED <<cfgName, srcStreams, baseImage, jobTags, jobStreams, configMaps,
                   imageName, params, printed, ranOk>>
    /\ UNCHANGED <<graphVars, linkVars, execVars>>

ReleaseRun ==
    /\ \E dry, getFault \in BOOLEAN, repo \in {"", "reg/job/stable"} :
       \E failAt \in (IF dry \/ getFault THEN {0} ELSE 0..MaxCreates) :
        LET r == releaseRun(dry, getFault, failAt, repo) IN
        /\ jobTags' = r.jobTags
        /\ jobStreams' = r.jobStreams
        /\ params' = r.params
        /\ printed' = r.printed
        /\ result' = r.res
        /\ call' = [step |-> "release", method |-> "Run", dry |-> dry]
        /\ remote' = LET e == releaseRunErrors(dry, getFault, failAt, repo) IN
                      [lookup |-> TRUE, readErr |-> e.readErr,
                       createErr |-> e.createErr, again |-> "release" \in ranOk]
        /\ ranOk' = IF ~dry /\ r.res.status = "ok" THEN ranOk \cup {"release"} ELSE ranOk
    /\ UNCHANGED <<cfgName, srcStreams, baseImage, configMaps, imageName>>
    /\ UNCHANGED <<graphVars, linkVars, execVars>>

ReleaseDone ==
    /\ \E fault \in BOOLEAN :
        /\ result' = releaseDone(fault)
        /\ call' = [step |-> "release", method |-> "Done", dry |-> FALSE]
        /\ remote' = [lookup |-> TRUE, readErr |-> fault, createErr |-> FALSE,
                      again |-> "release" \in ranOk]
    /\ UNCHANGED <<cfgName, srcStreams, baseImage, jobTags, jobStreams, configMaps,
                   imageName, params, printed, ranOk>>
    /\ UNCHANGED <<graphVars, linkVars, execVars>>

\* someone retags or deletes the base image in its namespace
RetagBaseImage ==
    /\ \E image \in (ImageNames \cup {""}) \ {baseImage} : baseImage' = image
    /\ UNCHANGED <<cfgName, srcStreams, jobTags, jobStreams, configMaps,
                   imageName, params, printed, call, result, ranOk, remote>>
    /\ UNCHANGED <<graphVars, linkVars, execVars>>

NextSteps ==
    \/ InputInputs
    \/ InputRun
    \/ InputDone
    \/ ReleaseRun
    \/ ReleaseDone
    \/ RetagBaseImage

SpecSteps == InitSteps /\ [][NextSteps]_vars

----------------------------------------------------------------------------
(* Helpers of the properties *)

Range(s) == {s[k] : k \in 1..Len(s)}

InSeq(x, s) == \E k \in 1..Len(s) : s[k] = x

\* some link of b.Requires() matches some link of a.Creates()
Feeds(a, b) ==
    \E i \in 1..Len(Requires(b)) : \E j \in 1..Len(Creates(a)) :
        Matches(Requires(b)[i], Creates(a)[j])

\* the node positions reachable from the roots by following Children
RECURSIVE ReachFrom(_, _)
ReachFrom(S, fuel) ==
    IF fuel = 0 THEN S
    ELSE ReachFrom(S \cup UNION {Range(nodes[k].Children) : k \in S}, fuel - 1)

Reachable == ReachFrom(Range(roots), Len(nodes))

\* the steps the returned nodes wrap
GraphSteps == {nodes[k].Step : k \in 1..Len(nodes)}

StepsNamed(name) == {i \in 1..Len(steps) : Name(i) = name}

\* a set of steps that contains every producer of what its members require
ClosedUnderProducers(S) ==
    \A p \in 1..Len(steps) : (\E s \in S : Feeds(p, s)) => p \in S

\* the least set of steps that contains T and is closed under producers
LeastClosure(T) ==
    {p \in 1..Len(steps) :
        \A S \in SUBSET (1..Len(steps)) :
            (T \subseteq S /\ ClosedUnderProducers(S)) => p \in S}

\* the elements of s at the positions in I, in order
RECURSIVE Pick(_, _, _)
Pick(s, I, k) ==
    IF k > Len(s) THEN <<>>
    ELSE IF k \in I THEN <<s[k]>> \o Pick(s, I, k + 1)
    ELSE Pick(s, I, k + 1)

\* the occurrences in names that no step is left to consume: the k-th
\* occurrence of a name is consumed iff at least k steps carry that name
UnmatchedAt(names) ==
    {k \in 1..Len(names) :
        Cardinality({h \in 1..k : names[h] = names[k]})
            > Cardinality(StepsNamed(names[k]))}

Partial == op = "BuildPartialGraph"

----------------------------------------------------------------------------
(* Properties of BuildGraph and BuildPartialGraph *)

\* C1: after BuildGraph, whenever a link of a.Creates() is matched by a link
\* of b.Requires(), b's node is in the Children of a's node.
C1_ProducerIsParent ==
    op = "BuildGraph" =>
        \A a, b \in 1..Len(nodes) :
            Feeds(nodes[a].Step, nodes[b].Step) => InSeq(b, nodes[a].Children)

C1_Witness ==
    /\ op = "BuildGraph"
    /\ \E a, b \in 1..Len(nodes) :
        /\ a # b
        /\ Feeds(nodes[a].Step, nodes[b].Step)
        /\ InSeq(b, nodes[a].Children)
        /\ InSeq(a, roots)

\* every requested name is the Name() of exactly one step
ResolveUniquely ==
    /\ Len(argNames) > 0
    /\ \A k \in 1..Len(argNames) : Cardinality(StepsNamed(argNames[k])) = 1
    /\ \A k, h \in 1..Len(argNames) : argNames[k] = argNames[h] => k = h

\* C2: for non-empty names that each resolve to one step, the call succeeds
\* and the graph is built from exactly the least set of steps that contains
\* the named steps and every producer of a link a selected step requires,
\* taken in their original order.
C2_LeastProducerClosure ==
    (Partial /\ ResolveUniquely) =>
        LET T == {i \in 1..Len(steps) : Name(i) \in Range(argNames)}
            S == LeastClosure(T)
        IN /\ ~failed
           /\ GraphSteps = S
           /\ [k \in 1..Len(nodes) |-> nodes[k].Step] = Pick(AllSteps, S, 1)
           /\ \A a, b \in 1..Len(nodes) :
                InSeq(b, nodes[a].Children) <=> Feeds(nodes[a].Step, nodes[b].Step)

\* the scenario X creates L1, Y requires L1, Z requires L1, target Z
C2_Witness ==
    /\ Partial
    /\ Len(steps) = 3
    /\ Name(1) = "X" /\ Name(2) = "Y" /\ Name(3) = "Z"
    /\ Requires(1) = <<>>
    /\ argNames = <<"Z">>
    /\ ~failed
    /\ nodes = <<[Step |-> 1, Children |-> <<2>>], [Step |-> 3, Children |-> <<>>]>>
    /\ roots = <<1>>

\* C3: when a requested name equals no step's Name(), the call fails, no
\* graph is returned, and the error lists, joined by ", " in their original
\* relative order, exactly the requested names left unconsumed.
C3_UnmatchedNamesReported ==
    (Partial /\ \E k \in 1..Len(argNames) : StepsNamed(argNames[k]) = {}) =>
        LET unmatched == Pick(argNames, UnmatchedAt(argNames), 1) IN
        /\ failed
        /\ nodes = <<>>
        /\ roots = <<>>
        /\ leftover = unmatched
        /\ errMsg = ErrPrefix \o Join(unmatched, ", ")
        /\ \A k \in 1..Len(argNames) :
             StepsNamed(argNames[k]) = {} => InSeq(argNames[k], leftover)

\* a failing call, given some steps, in which no requested name is known and
\* the error lists at least two names
C3_Witness ==
    /\ Partial
    /\ failed
    /\ Len(argNames) = MaxNames
    /\ Len(leftover) >= 2
    /\ \A k \in 1..Len(argNames) : StepsNamed(argNames[k]) = {}
    /\ Len(steps) > 0

\* C4: a requested name that is the Name() of more than one step makes the
\* call fail with an error that reports that name.
C4_AmbiguousNameFails ==
    Partial =>
        \A k \in 1..Len(argNames) :
            Cardinality(StepsNamed(argNames[k])) > 1 =>
                failed /\ InSeq(argNames[k], leftover)

\* C5: with an empty names list the call returns no error and the graph that
\* BuildGraph returns for the same steps.
C5_EmptyNamesIsBuildGraph ==
    (Partial /\ Len(argNames) = 0) =>
        /\ ~failed
        /\ [nodes |-> nodes, roots |-> roots] = BuildGraph(AllSteps)

C5_Witness ==
    /\ Partial
    /\ Len(argNames) = 0
    /\ Len(steps) = MaxSteps
    /\ Len(roots) > 0
    /\ \E k \in 1..Len(nodes) : Len(nodes[k].Children) > 0

\* C6: every step given to BuildGraph is the Step of a node reachable from a
\* returned root by following Children.
C6_AllStepsReachable ==
    op = "BuildGraph" =>
        \A s \in 1..Len(steps) : \E k \in Reachable : nodes[k].Step = s

\* C7: when no step's requirement is matched by a link another step creates,
\* BuildGraph returns one root per step and no root has children.
C7_ForestOfSingletons ==
    (op = "BuildGraph"
        /\ \A a, b \in 1..Len(steps) : a # b => ~Feeds(a, b)) =>
        /\ roots = AllSteps
        /\ \A k \in 1..Len(nodes) : nodes[k].Children = <<>>

\* C8: a step whose Name() is "" is never marked as a named target.
C8_EmptyNameNotTargeted ==
    Partial =>
        \A i \in 1..Len(named) : Name(i) = "" => ~named[i]

\* C12: in the graph BuildGraph returns no node is in its own Children, and
\* a step is a root unless a link of another step matches its requirements.
C12_NoSelfEdge ==
    op = "BuildGraph" =>
        \A k \in 1..Len(nodes) :
            /\ ~InSeq(k, nodes[k].Children)
            /\ (\A o \in 1..Len(nodes) : o # k => ~Feeds(nodes[o].Step, nodes[k].Step))
                    => InSeq(k, roots)

\* C13: in every returned graph each node's Children list is duplicate-free.
C13_ChildrenDuplicateFree ==
    op \in {"BuildGraph", "BuildPartialGraph"} =>
        \A k \in 1..Len(nodes) :
            \A c, d \in 1..Len(nodes[k].Children) :
                nodes[k].Children[c] = nodes[k].Children[d] => c = d

\* two requirements of one step match two links created by another step
C13_Witness ==
    /\ op = "BuildGraph"
    /\ \E a, b \in 1..Len(nodes) :
        /\ a # b
        /\ Cardinality({<<i, j>> \in (1..Len(Requires(nodes[b].Step)))
                                       \X (1..Len(Creates(nodes[a].Step))) :
                Matches(Requires(nodes[b].Step)[i], Creates(nodes[a].Step)[j])}) >= 2
        /\ nodes[a].Children = <<b>>

\* the number of positions of names that hold name
Occurrences(names, name) == Cardinality({k \in 1..Len(names) : names[k] = name})

\* C14: when names holds a name more than once and one step carries it, the
\* first occurrence is consumed, the repeated ones are reported: the call
\* fails with an error naming that name and returns no graph.
C14_RepeatedNameUnresolved ==
    Partial =>
        \A k \in 1..Len(argNames) :
            (Occurrences(argNames, argNames[k]) >= 2
                /\ Cardinality(StepsNamed(argNames[k])) = 1) =>
                /\ failed
                /\ nodes = <<>>
                /\ roots = <<>>
                /\ Occurrences(leftover, argNames[k])
                        = Occurrences(argNames, argNames[k]) - 1
                /\ named[CHOOSE i \in StepsNamed(argNames[k]) : TRUE]
                /\ errMsg = ErrPrefix \o Join(leftover, ", ")

\* the same, resolvable name twice and nothing else
C14_Witness ==
    /\ Partial
    /\ Len(argNames) = 2
    /\ argNames[1] = argNames[2]
    /\ Cardinality(StepsNamed(argNames[1])) = 1
    /\ leftover = <<argNames[1]>>
    /\ failed

\* the steps the closure loop added to the named ones
AddedByClosure == {i \in 1..Len(candidates) : candidates[i] /\ ~named[i]}

\* C15: the closure loop ends: every scan but the last selects at least one
\* step that was not selected, and no selected step is unselected.
C15_ClosureTerminates ==
    (Partial /\ Len(argNames) > 0 /\ ~failed) =>
        /\ scans >= 1
        /\ scans <= Cardinality(AddedByClosure) + 1
        /\ \A i \in 1..Len(named) : named[i] => candidates[i]

\* two productive scans and a last one, over steps that form a cycle
C15_Witness ==
    /\ Partial
    /\ ~failed
    /\ scans = 3
    /\ \E a, b \in 1..Len(steps) : a # b /\ Feeds(a, b) /\ Feeds(b, a)

\* C19: after any call the caller's names slice holds the same elements, in
\* the same positions, as before the call.
C19_CallerNamesUnchanged ==
    Partial => callerNames = argNames

----------------------------------------------------------------------------
(* Properties of Matches *)

\* the data that identifies a link within its kind
Identity(l) ==
    CASE l.kind = "external" -> <<l.Namespace, l.Name, l.Tag>>
      [] l.kind = "internal" -> <<l.Tag>>
      [] OTHER -> <<>>

\* C9: l.Matches(m) is false across kinds and, within a kind, true exactly
\* when the identifying data is equal; so l.Matches(l) holds and
\* l.Matches(m) = m.Matches(l).
C9_MatchesIsKindwiseEquality ==
    /\ linkRes = (linkL.kind = linkM.kind /\ Identity(linkL) = Identity(linkM))
    /\ linkSelf
    /\ linkRes = linkRev

\* two external links that differ in the tag only
C9_Witness ==
    /\ linkL.kind = "external"
    /\ linkM.kind = "external"
    /\ linkL.Namespace = linkM.Namespace
    /\ linkL.Name = linkM.Name
    /\ linkL.Tag # linkM.Tag
    /\ ~linkRes

----------------------------------------------------------------------------
(* Properties of the tagging steps *)

\* C10: for each of the two steps, once a non-dry-run Run has returned nil,
\* a Done() that the API answers returns true.
C10_DoneAfterRun ==
    (call.method = "Done" /\ call.step \in ranOk /\ result.status = "ok") =>
        result.value = "true"

\* the release step has run for real and its Done() is asked
C10_ReleaseCase ==
    /\ call = [step |-> "release", method |-> "Done", dry |-> FALSE]
    /\ "release" \in ranOk
    /\ jobTags # {}
    /\ result.status = "ok"

\* the same for the input image tag step alone
InputDoneAfterRun ==
    (call.method = "Done" /\ call.step = "input" /\ "input" \in ranOk
        /\ result.status = "ok") =>
        result.value = "true"

InputDoneAfterRun_Witness ==
    /\ call = [step |-> "input", method |-> "Done", dry |-> FALSE]
    /\ "input" \in ranOk
    /\ result = Ok("true")

----------------------------------------------------------------------------
(* Properties of the executor *)

\* C11: under every interleaving, a node that has begun its Done()/Run() has
\* every parent (every node whose Children contain it) in a terminal
\* success or skip state.
C11_ChildAfterParents ==
    op = "Execute" =>
        \A k \in 1..Len(nodes) :
            nstate[k] # "Pending" =>
                \A p \in ExecParents(k) : nstate[p] \in {"Succeeded", "Skipped"}

\* a node with two parents has begun after one parent ran and the other was skipped
C11_Witness ==
    /\ op = "Execute"
    /\ \E k \in 1..Len(nodes) :
        /\ Cardinality(ExecParents(k)) >= 2
        /\ nstate[k] \in {"Checking", "Running"}
        /\ \E p, q \in ExecParents(k) :
            nstate[p] = "Succeeded" /\ nstate[q] = "Skipped"

----------------------------------------------------------------------------
(* Properties of Run and Inputs of the tagging steps *)

\* a Run of either step
AnyRun == call'.method = "Run" /\ (InputRun \/ ReleaseRun)

\* C16: a Run with dryRun = true leaves the image streams, image stream tags
\* and config maps of the cluster as they were; a successful one of the input
\* image tag step renders the tag it would create.
C16_DryRunCreatesNothing ==
    [][(call'.dry /\ AnyRun) =>
            /\ jobTags' = jobTags
            /\ jobStreams' = jobStreams
            /\ configMaps' = configMaps
            /\ printed \subseteq printed'
            /\ (call'.step = "input" /\ result'.status = "ok") =>
                    inputTag(imageName').Name \in printed']_vars

\* a dry run has rendered its resources into an untouched job namespace
C16_Witness ==
    /\ call.method = "Run"
    /\ call.dry
    /\ result.status = "ok"
    /\ printed # {}
    /\ jobTags = {}
    /\ jobStreams = {}

\* a non-dry-run Run of a step whose earlier non-dry-run Run returned nil
ReRun == ~call'.dry /\ call'.step \in ranOk /\ AnyRun

\* C17 as stated: a repeated Run keeps what was created and fails only on a
\* create error other than already exists.
C17_OnlyCreateErrorsFail ==
    [][ReRun =>
            /\ jobTags' = jobTags
            /\ jobStreams' = jobStreams
            /\ (result'.status = "ok" \/ remote'.createErr)]_vars

\* C17 (amended): a repeated Run keeps what was created and treats already
\* exists as success; it fails exactly when a create fails with another
\* error or the step's read of its source fails.
C17_ReRunSafe ==
    [][ReRun =>
            /\ jobTags' = jobTags
            /\ jobStreams' = jobStreams
            /\ (result'.status = "ok" <=> ~(remote'.createErr \/ remote'.readErr))]_vars

\* a repeated Run has returned nil on already exists
C17_Witness ==
    /\ call.method = "Run"
    /\ ~call.dry
    /\ remote.again
    /\ result.status = "ok"
    /\ jobTags # {}

\* C18: once imageName is set it stays; Inputs then returns it, and Run
\* tags it, without a lookup, whatever the base image resolves to by then;
\* a lookup that fails sets nothing and the next call looks up again.
C18_InputsMemoized ==
    [][/\ Len(imageName) > 0 => imageName' = imageName
       /\ (Len(imageName) > 0 /\ InputInputs) =>
            (result' = Ok(imageName) /\ ~remote'.lookup)
       /\ (Len(imageName) > 0 /\ InputRun) =>
            /\ ~remote'.lookup
            /\ ~remote'.readErr
            /\ \A t \in jobTags' \ jobTags : t = inputTag(imageName)
       /\ (Len(imageName) = 0 /\ InputInputs) =>
            /\ remote'.lookup
            /\ result'.status = "err" => imageName' = imageName
            /\ result'.status = "ok" => (result' = Ok(baseImage) /\ imageName' = baseImage)
      ]_vars

\* Inputs has answered from the memo after the base image was retagged
C18_Witness ==
    /\ call.step = "input"
    /\ call.method = "Inputs"
    /\ Len(imageName) > 0
    /\ baseImage # imageName
    /\ result = Ok(imageName)
    /\ ~remote.lookup

====
